---- MODULE Spec2Model ----
(***************************************************************************)
(* A model of the 2-D vector graphics rasterizer of package vector        *)
(* (src/vector/vector.go).  The Rasterizer's fields are the variables;     *)
(* every exported method is one action.  Coordinates are float32 in the   *)
(* code; here they live on a grid of FxOne sub-pixel units per pixel.      *)
(* The deposition and accumulation kernels (raster_fixed.go,               *)
(* raster_floating.go, acc_*.go) are not part of vector.go; they are       *)
(* modelled from sections 4.4 and 4.5 of the specification.                *)
(***************************************************************************)
EXTENDS Integers, Sequences, FiniteSets, TLC

\* ------------------------------------------------------------------ bounds
\* Largest small width/height offered to NewRasterizer and Reset.
MaxDim == 2
\* Number of operations performed after the zero value is created.
MaxSteps == 3
\* Sub-pixel units per pixel of the coordinate grid.
FxOne == 2
\* Largest pixel coordinate of a path point.
MaxCoord == 2

\* --------------------------------------------------------- program constants
floatingPointMathThreshold == 2048

U16Max == 65535

VARIABLES
    bufF32,                 \* backing array of z.bufF32: cell index (from 1) to
                            \* value, for the cells that are not zero
    capF32,                 \* cap(z.bufF32)
    lenF32,                 \* len(z.bufF32)
    bufU32,                 \* backing array of z.bufU32, likewise; a cell holds
                            \* the int32 the uint32 bits stand for
    capU32,                 \* cap(z.bufU32)
    lenU32,                 \* len(z.bufU32)
    useFloatingPointMath,
    size,                   \* image.Point, <<X, Y>>
    first,                  \* f32.Vec2 in sub-pixel units
    pen,                    \* f32.Vec2 in sub-pixel units
    DrawOp,                 \* "Over" | "Src"
    status,                 \* "ok" | "panic" (a run-time panic ended the program)
    dst,                    \* the destination image of the last Draw
    op,                     \* history: name of the last call
    args,                   \* history: its point/size arguments
    lastMoveTo,             \* history: argument of the last MoveTo since Reset
    lineTos,                \* history: the LineTo targets the last call emitted
    trace,                  \* history: what the last Draw did
    steps,                  \* history: number of calls so far
    blend                   \* one pixel channel put through the compositing formulas

vars == <<bufF32, capF32, lenF32, bufU32, capU32, lenU32,
          useFloatingPointMath, size, first,
          pen, DrawOp, status, dst, op, args, lastMoveTo, lineTos, trace, steps,
          blend>>

\* ------------------------------------------------------------------ helpers
Min2(a, b) == IF a < b THEN a ELSE b
Max2(a, b) == IF a > b THEN a ELSE b
Abs(a) == IF a < 0 THEN -a ELSE a

\* Arrays are kept by their cells that are not zero.
Cell(buf, i) == IF i \in DOMAIN buf THEN buf[i] ELSE 0
Cells(S, F(_)) == [i \in {j \in S : F(j) # 0} |-> F(i)]
NoCells == [i \in {} |-> 0]
Origin == <<0, 0>>

\* floor(sqrt(n)) for n >= 0.
RECURSIVE ISqrtFrom(_, _)
ISqrtFrom(n, r) == IF (r + 1) * (r + 1) > n THEN r ELSE ISqrtFrom(n, r + 1)
ISqrt(n) == ISqrtFrom(n, 0)

\* ------------------------------------------------------ coordinate utilities
\* lerp with t = k/n, rounded down to the coordinate grid.
lerp(k, n, p, q) ==
    << p[1] + (k * (q[1] - p[1])) \div n,
       p[2] + (k * (q[2] - p[2])) \div n >>

clamp(i, width) ==
    IF i < 0 THEN 0 ELSE IF i < width THEN i ELSE width

\* ---------------------------------------------------------- edge deposition
\* Section 4.4.  Areas are kept in units of 1/(2*FxOne*FxOne) pixel, so that
\* one fully covered pixel is Scale.
Scale == 2 * FxOne * FxOne

\* x of the segment a->b (a[2] < b[2]) at height Y.
XAt(a, b, Y) == a[1] + ((b[1] - a[1]) * (Y - a[2])) \div (b[2] - a[2])

\* Twice the area, within a row strip of height dy crossed by a sub-segment
\* running from x0 to x1 (x0 <= x1), that lies right of the sub-segment and
\* left of the vertical line at X.
AreaLeftOf(X, x0, x1, dy) ==
    IF X <= x0 THEN 0
    ELSE IF X >= x1 THEN dy * (2 * X - x0 - x1)
    ELSE (dy * (X - x0) * (X - x0)) \div (x1 - x0)

\* Coverage of pixel column xi by the region right of the sub-segment.
ColumnCover(xi, x0, x1, dy) ==
    AreaLeftOf((xi + 1) * FxOne, x0, x1, dy) - AreaLeftOf(xi * FxOne, x0, x1, dy)

\* The area of the sub-segment's columns xi..hi that clamp sends to column c.
RECURSIVE ClampedSum(_, _, _, _, _, _, _)
ClampedSum(xi, hi, c, w, x0, x1, dy) ==
    IF xi > hi THEN 0
    ELSE (IF clamp(xi, w) = c
          THEN ColumnCover(xi, x0, x1, dy) - ColumnCover(xi - 1, x0, x1, dy)
          ELSE 0)
         + ClampedSum(xi + 1, hi, c, w, x0, x1, dy)

\* The signed area the edge p->q adds to buffer cell (c, y) of a w x h buffer.
\* Contributions clamped to column w are not stored.
EdgeDelta(p, q, w, h, c, y) ==
    IF p[2] = q[2] \/ y < 0 \/ y >= h THEN 0
    ELSE
      LET dir == IF p[2] > q[2] THEN -1 ELSE 1
          a   == IF p[2] > q[2] THEN q ELSE p
          b   == IF p[2] > q[2] THEN p ELSE q
          yLo == Max2(y * FxOne, a[2])
          yHi == Min2((y + 1) * FxOne, b[2])
          dy  == yHi - yLo
      IN IF dy <= 0 THEN 0
         ELSE
           LET xa == XAt(a, b, yLo)
               xb == XAt(a, b, yHi)
               x0 == Min2(xa, xb)
               x1 == Max2(xa, xb)
               x0i == x0 \div FxOne
               x1i == (x1 + FxOne - 1) \div FxOne
           IN dir * ClampedSum(x0i, x1i, c, w, x0, x1, dy)

\* The rows of an h-high buffer the edge p->q crosses.
RowsOf(p, q, h) ==
    Max2(0, Min2(p[2], q[2]) \div FxOne)
      .. (Min2(h, (Max2(p[2], q[2]) + FxOne - 1) \div FxOne) - 1)

\* The buffer cells of those rows.
Touched(n, p, q, w, h) ==
    {i \in {y * w + c + 1 : y \in RowsOf(p, q, h), c \in 0..(w - 1)} : i <= n}

Deposit(buf, n, p, q, w, h) ==
    LET t == Touched(n, p, q, w, h)
        New(i) == IF i \in t
                  THEN Cell(buf, i) + EdgeDelta(p, q, w, h, (i - 1) % w, (i - 1) \div w)
                  ELSE Cell(buf, i)
    IN Cells(DOMAIN buf \cup t, New)

\* raster_fixed.go: fixedLineTo deposits into bufU32 (two's complement).
fixedLineTo(buf, n, p, q, w, h) == Deposit(buf, n, p, q, w, h)

\* raster_floating.go: floatingLineTo deposits into bufF32.
floatingLineTo(buf, n, p, q, w, h) == Deposit(buf, n, p, q, w, h)

\* ------------------------------------------------- accumulation (section 4.5)
\* The coverage function: round(min(|a|, Scale) / Scale * 0xffff).
Coverage(a) == (2 * Min2(Abs(a), Scale) * U16Max + Scale) \div (2 * Scale)

\* First and last cell of the row of cell i in a buffer of n cells, w wide.
RowStart(i, w) == IF w > 0 THEN i - ((i - 1) % w) ELSE 1
RowEnd(i, w, n) == IF w > 0 THEN Min2(n, RowStart(i, w) + w - 1) ELSE n

RECURSIVE SumCells(_, _, _)
SumCells(buf, lo, hi) ==
    IF lo > hi THEN 0 ELSE Cell(buf, hi) + SumCells(buf, lo, hi - 1)

\* The coverage of cell i: the running sum of its row, left to right.
Alpha(buf, w, i) == Coverage(SumCells(buf, RowStart(i, w), i))

\* The cells of buf[:n] whose running sum can differ from zero.
MaskCells(buf, n, w) ==
    UNION { j..RowEnd(j, w, n) : j \in {k \in DOMAIN buf : k <= n} }

\* acc_other.go / raster_fixed.go: fixedAccumulateMask, in place on buf[:n].
fixedAccumulateMask(buf, n, w) ==
    Cells(MaskCells(buf, n, w) \cup {j \in DOMAIN buf : j > n},
          LAMBDA i : IF i <= n THEN Alpha(buf, w, i) ELSE buf[i])

\* floatingAccumulateMask(dst, src): dst[:n] receives the mask of src[:n].
floatingAccumulateMask(dstBuf, srcBuf, n, w) ==
    Cells(MaskCells(srcBuf, n, w) \cup {j \in DOMAIN dstBuf : j > n},
          LAMBDA i : IF i <= n THEN Alpha(srcBuf, w, i) ELSE dstBuf[i])

\* ------------------------------------------------------------ Reset (125-157)
\* One arm of setUseFloatingPointMath: make the buffer n long and zero.
\* A negative n is a slice-bounds panic, which leaves the buffer as it was.
ResizeAndZero_KeepsOldCells(buf, cap, len, n) ==
    IF n > cap THEN [buf |-> NoCells, cap |-> n, len |-> n, ok |-> TRUE]
    ELSE IF n < 0 THEN [buf |-> buf, cap |-> cap, len |-> len, ok |-> FALSE]
    ELSE [buf |-> buf, cap |-> cap, len |-> n, ok |-> TRUE]

ResizeAndZero(buf, cap, len, n) ==
    IF n > cap THEN [buf |-> NoCells, cap |-> n, len |-> n, ok |-> TRUE]
    ELSE IF n < 0 THEN [buf |-> buf, cap |-> cap, len |-> len, ok |-> FALSE]
    ELSE [buf |-> Cells({j \in DOMAIN buf : j > n}, LAMBDA i : buf[i]),
          cap |-> cap, len |-> n, ok |-> TRUE]

ChooseFloating_WidthOnly(w, h) == w > floatingPointMathThreshold

ChooseFloating(w, h) ==
    w > floatingPointMathThreshold \/ h > floatingPointMathThreshold

\* The buffers and the mode after z.Reset(w, h) on the buffers f and u, each
\* a record [buf, cap, len].
ResetFields(f, u, w, h) ==
    LET b == ChooseFloating(w, h)
        n == w * h
        rf == IF b THEN ResizeAndZero(f.buf, f.cap, f.len, n) ELSE f
        ru == IF b THEN u ELSE ResizeAndZero(u.buf, u.cap, u.len, n)
    IN [bufF32 |-> rf.buf, capF32 |-> rf.cap, lenF32 |-> rf.len,
        bufU32 |-> ru.buf, capU32 |-> ru.cap, lenU32 |-> ru.len,
        useFloatingPointMath |-> b,
        status |-> IF (b /\ rf.ok) \/ (~b /\ ru.ok) THEN "ok" ELSE "panic"]

NilBuf == [buf |-> NoCells, cap |-> 0, len |-> 0]

NoTrace == [path |-> "none", maskPass |-> FALSE, bypass |-> FALSE,
            reads |-> {}, writes |-> {}, r |-> <<0, 0, 0, 0>>,
            uniform |-> FALSE, sa |-> 0]
NoBlend == [path |-> "none", d |-> 0, ma |-> 0, s |-> 0, sa |-> 0,
            fast |-> 0, generic |-> 0, sumHi |-> 0, chan |-> 0]
NoDst == [kind |-> "none", rect |-> <<0, 0, 0, 0>>, pix |-> <<>>]

\* Sizes offered to NewRasterizer and Reset: small ones, ones with a negative
\* component, and ones beyond the floating point threshold.
Sizes ==
    { <<MaxDim, MaxDim>>, <<1, MaxDim>>, <<-1, -1>>, <<-1, MaxDim>>,
      <<floatingPointMathThreshold + 1, 0>>,
      <<1, floatingPointMathThreshold + 1>> }

CanCall == status = "ok" /\ steps < MaxSteps

SetFields(z) ==
    /\ bufF32' = z.bufF32 /\ capF32' = z.capF32 /\ lenF32' = z.lenF32
    /\ bufU32' = z.bufU32 /\ capU32' = z.capU32 /\ lenU32' = z.lenU32
    /\ useFloatingPointMath' = z.useFloatingPointMath
    /\ status' = z.status

\* NewRasterizer (79-83): Reset on the zero value.
Init ==
    \E sz \in Sizes :
        LET z == ResetFields(NilBuf, NilBuf, sz[1], sz[2])
        IN /\ bufF32 = z.bufF32 /\ capF32 = z.capF32 /\ lenF32 = z.lenF32
           /\ bufU32 = z.bufU32 /\ capU32 = z.capU32 /\ lenU32 = z.lenU32
           /\ useFloatingPointMath = z.useFloatingPointMath
           /\ status = z.status
           /\ size = sz /\ first = Origin /\ pen = Origin /\ DrawOp = "Over"
           /\ dst = NoDst /\ op = "NewRasterizer" /\ args = <<sz>>
           /\ lastMoveTo = Origin /\ lineTos = <<>> /\ trace = NoTrace
           /\ steps = 0 /\ blend = NoBlend

Called(name, a) ==
    /\ op' = name /\ args' = a /\ steps' = steps + 1
    /\ UNCHANGED blend

Reset(w, h) ==
    /\ CanCall
    /\ SetFields(ResetFields([buf |-> bufF32, cap |-> capF32, len |-> lenF32],
                             [buf |-> bufU32, cap |-> capU32, len |-> lenU32], w, h))
    /\ size' = <<w, h>> /\ first' = Origin /\ pen' = Origin /\ DrawOp' = "Over"
    /\ lastMoveTo' = Origin /\ lineTos' = <<>> /\ trace' = NoTrace /\ dst' = NoDst
    /\ Called("Reset", << <<w, h>> >>)

\* Assignment to the exported field z.DrawOp (116).
SetDrawOp(o) ==
    /\ CanCall
    /\ DrawOp' = o
    /\ lineTos' = <<>> /\ trace' = NoTrace /\ dst' = NoDst
    /\ Called("SetDrawOp", <<>>)
    /\ UNCHANGED <<bufF32, capF32, lenF32, bufU32, capU32, lenU32,
                   useFloatingPointMath, size,
                   first, pen, status, lastMoveTo>>

\* ------------------------------------------------------ path commands (177-246)
MoveTo(a) ==
    /\ CanCall
    /\ first' = a /\ pen' = a
    /\ lastMoveTo' = a /\ lineTos' = <<>> /\ trace' = NoTrace /\ dst' = NoDst
    /\ Called("MoveTo", <<pen, a>>)
    /\ UNCHANGED <<bufF32, capF32, lenF32, bufU32, capU32, lenU32,
                   useFloatingPointMath, size,
                   DrawOp, status>>

\* The active buffer after LineTo(b) for each b of pts in turn, from pen p.
RECURSIVE PolyLine(_, _, _, _, _, _, _)
PolyLine(fp, buf, n, p, pts, w, h) ==
    IF pts = <<>> THEN buf
    ELSE PolyLine(fp,
                  IF fp THEN floatingLineTo(buf, n, p, Head(pts), w, h)
                        ELSE fixedLineTo(buf, n, p, Head(pts), w, h),
                  n, Head(pts), Tail(pts), w, h)

\* LineTo (192-198) called for each point of pts; pts is not empty.
LineTos(pts) ==
    /\ IF useFloatingPointMath
       THEN /\ bufF32' = PolyLine(TRUE, bufF32, lenF32, pen, pts, size[1], size[2])
            /\ UNCHANGED bufU32
       ELSE /\ bufU32' = PolyLine(FALSE, bufU32, lenU32, pen, pts, size[1], size[2])
            /\ UNCHANGED bufF32
    /\ pen' = pts[Len(pts)]
    /\ lineTos' = pts
    /\ trace' = NoTrace /\ dst' = NoDst
    /\ UNCHANGED <<capF32, lenF32, capU32, lenU32, useFloatingPointMath, size,
                   first, DrawOp, status, lastMoveTo>>

LineTo(b) ==
    /\ CanCall
    /\ LineTos(<<b>>)
    /\ Called("LineTo", <<pen, b>>)

ClosePathTarget_Pen == pen

ClosePathTarget == first

ClosePath ==
    /\ CanCall
    /\ LineTos(<<ClosePathTarget>>)
    /\ Called("ClosePath", <<pen>>)

\* devSquared (261-265), in squared sub-pixel units.
devSquared(a, b, c) ==
    LET devx == a[1] - 2 * b[1] + c[1]
        devy == a[2] - 2 * b[2] + c[2]
    IN devx * devx + devy * devy

\* The number n of segments for a curvature estimate devsq (207-209, 231-233):
\* 1 below 0.333, else 1 + int(sqrt(sqrt(3 * devsq))).
Segments_NoPlusOne(devsq) ==
    IF 1000 * devsq >= 333 * FxOne * FxOne
    THEN Max2(1, ISqrt(ISqrt((3 * devsq) \div (FxOne * FxOne))))
    ELSE 1

Segments(devsq) ==
    IF 1000 * devsq >= 333 * FxOne * FxOne
    THEN 1 + ISqrt(ISqrt((3 * devsq) \div (FxOne * FxOne)))
    ELSE 1

\* The points QuadTo hands to LineTo.
QuadPoints(a, b, c) ==
    LET n == Segments(devSquared(a, b, c))
    IN [i \in 1..n |->
          IF i = n THEN c
          ELSE lerp(i, n, lerp(i, n, a, b), lerp(i, n, b, c))]

\* The points CubeTo hands to LineTo.
CubePoints(a, b, c, d) ==
    LET n == Segments(Max2(devSquared(a, b, d), devSquared(a, c, d)))
    IN [i \in 1..n |->
          IF i = n THEN d
          ELSE LET ab == lerp(i, n, a, b)
                   bc == lerp(i, n, b, c)
                   cd == lerp(i, n, c, d)
               IN lerp(i, n, lerp(i, n, ab, bc), lerp(i, n, bc, cd))]

QuadTo(b, c) ==
    /\ CanCall
    /\ LineTos(QuadPoints(pen, b, c))
    /\ Called("QuadTo", <<pen, b, c>>)

CubeTo(b, c, d) ==
    /\ CanCall
    /\ LineTos(CubePoints(pen, b, c, d))
    /\ Called("CubeTo", <<pen, b, c, d>>)

\* ------------------------------------------------------- uint32 arithmetic
\* A uint32 is kept as <<hi, lo>>, its two 16-bit halves.
B16 == 65536

\* x * y for x, y < 2^16, not wrapped.
Mul16(x, y) ==
    LET A == (x \div 256) * y
        B == (x % 256) * y
        t == A + B \div 256
    IN << t \div 256, ((t % 256) * 256) + (B % 256) >>

\* p + q, not wrapped: hi may reach 2^16 and beyond.
AddWide(p, q) ==
    LET lo == p[2] + q[2]
    IN << p[1] + q[1] + lo \div B16, lo % B16 >>

\* The uint32 a wide value wraps to.
Wrap32(p) == << p[1] % B16, p[2] >>

\* p / 0xffff.
Div65535(p) == p[1] + (p[1] + p[2]) \div U16Max

\* uint8(v >> 8) and uint16(v).
Narrow8(v) == (v \div 256) % 256
U16(v) == v % B16

\* --------------------------------------------------- compositing arithmetic
\* a := 0xffff - (sa * ma / 0xffff)                          (406, 446)
OverAlpha_ShiftForDivide(sa, ma) == U16Max - Mul16(sa, ma)[1]

OverAlpha(sa, ma) == U16Max - Div65535(Mul16(sa, ma))

\* dr*a + sr*ma before it wraps to uint32.
OverSum(d16, a, s, ma) == AddWide(Mul16(d16, a), Mul16(s, ma))

\* (dr*a + sr*ma) / 0xffff in uint32 arithmetic                (447-450)
OverChannel(d16, a, s, ma) == Div65535(Wrap32(OverSum(d16, a, s, ma)))

\* sr * ma / 0xffff                                            (468-471)
SrcChannel(s, ma) == Div65535(Wrap32(Mul16(s, ma)))

\* rasterizeDstRGBASrcUniformOpOver's byte                     (406-411)
FastRGBAOver_NoExpand(d8, s, sa, ma) ==
    Narrow8(OverChannel(d8 * 256, OverAlpha(sa, ma), s, ma))

FastRGBAOver(d8, s, sa, ma) ==
    Narrow8(OverChannel(d8 * 257, OverAlpha(sa, ma), s, ma))

\* rasterizeDstRGBASrcUniformOpSrc's byte                      (426-429)
FastRGBASrc(s, ma) == Narrow8(SrcChannel(s, ma))

\* rasterizeDstAlphaSrcOpaqueOpOver's byte                     (357-358)
FastAlphaOver(d8, ma) ==
    Narrow8(Div65535(Wrap32(Mul16(d8 * 257, U16Max - ma))) + ma)

\* rasterizeDstAlphaSrcOpaqueOpSrc's byte                      (392)
FastAlphaSrc(ma) == Narrow8(ma)

\* rasterizeOpOver / rasterizeOpSrc on one channel: dst.At(..).RGBA() of an
\* 8-bit image gives d8 * 0x101, out is a color.RGBA64 and dst.Set keeps the
\* high byte of each 16-bit channel.
GenericOver(d8, s, sa, ma) ==
    Narrow8(U16(OverChannel(d8 * 257, OverAlpha(sa, ma), s, ma)))

GenericSrc(s, ma) == Narrow8(U16(SrcChannel(s, ma)))

\* ------------------------------------------------------------ Draw (272-476)
\* accumulateMask (306-325): the uint32 mask in z.bufU32.
accumulateMask_SkipsFixedKernel(fp, f, lf, u, cu, lu, w, h) ==
    IF fp
    THEN LET n == w * h
             d == IF n > cu THEN NoCells ELSE u
         IN [buf |-> floatingAccumulateMask(d, f, lf, w),
             cap |-> Max2(n, cu), len |-> n]
    ELSE [buf |-> u, cap |-> cu, len |-> lu]

accumulateMask(fp, f, lf, u, cu, lu, w, h) ==
    IF fp
    THEN LET n == w * h
             d == IF n > cu THEN NoCells ELSE u
         IN [buf |-> floatingAccumulateMask(d, f, lf, w),
             cap |-> Max2(n, cu), len |-> n]
    ELSE [buf |-> fixedAccumulateMask(u, lu, w), cap |-> cu, len |-> lu]

Dx(r) == r[3] - r[1]
Dy(r) == r[4] - r[2]
InRect(x, y, r) == r[1] <= x /\ x < r[3] /\ r[2] <= y /\ y < r[4]
BytesPerPixel(kind) == IF kind = "RGBA" THEN 4 ELSE 1
Stride(d) == BytesPerPixel(d.kind) * Dx(d.rect)
\* image.Alpha.PixOffset / image.RGBA.PixOffset
PixOffset(d, x, y) ==
    (y - d.rect[2]) * Stride(d) + (x - d.rect[1]) * BytesPerPixel(d.kind)
\* The pixel a byte of d.Pix belongs to (i counts from 0).
PixelOf(d, i) ==
    << d.rect[1] + (i % Stride(d)) \div BytesPerPixel(d.kind),
       d.rect[2] + i \div Stride(d) >>

\* z.Bounds() (166-168)
Bounds(sz) == <<0, 0, sz[1], sz[2]>>

\* The body of the x, y loops of the four type-specialised rasterizers
\* (350-359, 386-393, 400-412, 419-430) for one pixel: st is the loop state,
\* off the offset of pix in d.Pix.
FastStep(path, st, x, y, d, off, w, mask, mlen, c) ==
    LET mi == y * w + x
        i  == off + y * Stride(d) + BytesPerPixel(d.kind) * x
    IN IF mi < 0 \/ mi >= mlen \/ i < 0 \/ i >= Len(st.pix)
       THEN [st EXCEPT !.ok = FALSE,
                       !.reads = IF mi < 0 \/ mi >= mlen THEN @
                                 ELSE @ \cup {<<x, y, mi>>}]
       ELSE
         LET ma == Cell(mask, mi + 1)
             new(j) ==
                 CASE path = "DstAlphaSrcOpaqueOpOver" -> FastAlphaOver(st.pix[i + 1], ma)
                   [] path = "DstAlphaSrcOpaqueOpSrc" -> FastAlphaSrc(ma)
                   [] path = "DstRGBASrcUniformOpOver" ->
                          FastRGBAOver(st.pix[i + 1 + j], c[j + 1], c[4], ma)
                   [] path = "DstRGBASrcUniformOpSrc" -> FastRGBASrc(c[j + 1], ma)
             last == i + BytesPerPixel(d.kind)
         IN [ok |-> TRUE,
             pix |-> [q \in 1..Len(st.pix) |->
                        IF i < q /\ q <= last THEN new(q - i - 1) ELSE st.pix[q]],
             reads |-> st.reads \cup {<<x, y, mi>>},
             writes |-> st.writes \cup {PixelOf(d, i)}]

\* The body of the loops of rasterizeOpOver / rasterizeOpSrc (438-454,
\* 461-474): dst.At and dst.Set of an image.Alpha or image.RGBA.
GenericStep(path, st, x, y, d, r, w, mask, mlen, c) ==
    LET mi == y * w + x
        px == r[1] + x
        py == r[2] + y
        in == InRect(px, py, d.rect)
        i  == PixOffset(d, px, py)
    IN IF mi < 0 \/ mi >= mlen
       THEN [st EXCEPT !.ok = FALSE]
       ELSE
         LET ma == Cell(mask, mi + 1)
             at(j) == IF in THEN st.pix[i + 1 + j] ELSE 0
             \* an image.Alpha reports its byte on every channel
             sj(j) == IF d.kind = "Alpha" THEN c[4] ELSE c[j + 1]
             new(j) == IF path = "OpOver"
                       THEN GenericOver(at(j), sj(j), c[4], ma)
                       ELSE GenericSrc(sj(j), ma)
             last == i + BytesPerPixel(d.kind)
         IN [ok |-> TRUE,
             pix |-> IF in
                     THEN [q \in 1..Len(st.pix) |->
                             IF i < q /\ q <= last THEN new(q - i - 1) ELSE st.pix[q]]
                     ELSE st.pix,
             reads |-> st.reads \cup {<<x, y, mi>>},
             writes |-> IF in THEN st.writes \cup {<<px, py>>} ELSE st.writes]

\* for y := 0; y < r.Dy(); y++ { for x := 0; x < r.Dx(); x++ { ... } },
\* stopped by the first index out of range.
RECURSIVE PixelLoop(_, _, _, _, _, _, _, _, _, _)
PixelLoop(path, k, st, d, r, off, w, mask, mlen, c) ==
    IF Dx(r) <= 0 \/ Dy(r) <= 0 \/ k >= Dx(r) * Dy(r) \/ ~st.ok THEN st
    ELSE LET x == k % Dx(r)
             y == k \div Dx(r)
         IN PixelLoop(path, k + 1,
                      IF path \in {"OpOver", "OpSrc"}
                      THEN GenericStep(path, st, x, y, d, r, w, mask, mlen, c)
                      ELSE FastStep(path, st, x, y, d, off, w, mask, mlen, c),
                      d, r, off, w, mask, mlen, c)

\* acc_other.go: fixed/floatingAccumulateOpOver and ...OpSrc write the
\* coverage of sig[1..n] straight to the bytes of pix (section 4.5).
AccumulateOp(over, pix, sig, n, w) ==
    [q \in 1..Len(pix) |->
       IF q > n THEN pix[q]
       ELSE LET al == Alpha(sig, w, q)
            IN IF over
               THEN Narrow8(Div65535(AddWide(Mul16(pix[q] * 257, U16Max - al),
                                             Mul16(al, U16Max))))
               ELSE Narrow8(al)]

\* Which rasterizer Draw dispatches to (276-303).
DrawPath(kind, src, o) ==
    IF src.uniform /\ kind = "Alpha" /\ src.c[4] = U16Max
    THEN IF o = "Over" THEN "DstAlphaSrcOpaqueOpOver" ELSE "DstAlphaSrcOpaqueOpSrc"
    ELSE IF src.uniform /\ kind = "RGBA"
    THEN IF o = "Over" THEN "DstRGBASrcUniformOpOver" ELSE "DstRGBASrcUniformOpSrc"
    ELSE IF o = "Over" THEN "OpOver" ELSE "OpSrc"

\* The rasterizers for an alpha destination skip the mask when r is both
\* images' bounds (329, 365).
Bypasses_Always(path, d, r, sz) ==
    path \in {"DstAlphaSrcOpaqueOpOver", "DstAlphaSrcOpaqueOpSrc"}

Bypasses(path, d, r, sz) ==
    /\ path \in {"DstAlphaSrcOpaqueOpOver", "DstAlphaSrcOpaqueOpSrc"}
    /\ r = d.rect
    /\ r = Bounds(sz)

Draw(d, r, src) ==
    LET path == DrawPath(d.kind, src, DrawOp)
        by   == Bypasses(path, d, r, size)
        m    == accumulateMask(useFloatingPointMath, bufF32, lenF32,
                               bufU32, capU32, lenU32, size[1], size[2])
        off  == PixOffset(d, r[1], r[2])
        generic == path \in {"OpOver", "OpSrc"}
        st0  == [ok |-> TRUE, pix |-> d.pix, reads |-> {}, writes |-> {}]
        st   == IF by
                THEN [ok |-> TRUE,
                      pix |-> IF useFloatingPointMath
                              THEN AccumulateOp(path = "DstAlphaSrcOpaqueOpOver",
                                                d.pix, bufF32, lenF32, size[1])
                              ELSE AccumulateOp(path = "DstAlphaSrcOpaqueOpOver",
                                                d.pix, bufU32, lenU32, size[1]),
                      reads |-> {},
                      writes |-> {PixelOf(d, q - 1) :
                                    q \in 1..Min2(Len(d.pix), IF useFloatingPointMath
                                                              THEN lenF32 ELSE lenU32)}]
                ELSE IF ~generic /\ (off < 0 \/ off > Len(d.pix))
                THEN [st0 EXCEPT !.ok = FALSE]      \* dst.Pix[off:] out of range
                ELSE PixelLoop(path, 0, st0, d, r, off, size[1], m.buf, m.len, src.c)
    IN /\ CanCall
       /\ IF by THEN UNCHANGED <<bufU32, capU32, lenU32>>
                ELSE bufU32' = m.buf /\ capU32' = m.cap /\ lenU32' = m.len
       /\ dst' = [d EXCEPT !.pix = st.pix]
       /\ status' = IF st.ok THEN "ok" ELSE "panic"
       /\ trace' = [path |-> path, maskPass |-> ~by, bypass |-> by,
                    reads |-> st.reads, writes |-> st.writes, r |-> r,
                    uniform |-> src.uniform, sa |-> src.c[4]]
       /\ lineTos' = <<>>
       /\ Called("Draw", <<>>)
       /\ UNCHANGED <<bufF32, capF32, lenF32, useFloatingPointMath, size, first,
                      pen, DrawOp, lastMoveTo>>

\* ------------------------------------------------------------- the inputs
\* Path points: on a half pixel at the top, the far corner of the viewport,
\* and outside the viewport on either side.
Pts ==
    { <<FxOne \div 2, 0>>,
      <<MaxCoord * FxOne, MaxCoord * FxOne>>,
      <<-FxOne, FxOne>>,
      <<(MaxCoord + 1) * FxOne, FxOne \div 2>> }

\* Control points of the curves: a gentle and a sharp quadratic and cubic.
Quads ==
    { << <<FxOne, FxOne>>, <<MaxCoord * FxOne, MaxCoord * FxOne>> >>,
      << <<4 * MaxCoord * FxOne, 0>>, <<0, MaxCoord * FxOne>> >> }
Cubes ==
    { << <<0, 0>>, <<MaxCoord * FxOne, MaxCoord * FxOne>>,
         <<MaxCoord * FxOne, MaxCoord * FxOne>> >>,
      << <<4 * MaxCoord * FxOne, 0>>, <<0, 4 * MaxCoord * FxOne>>,
         <<0, MaxCoord * FxOne>> >> }

Ops == {"Over", "Src"}

\* Destinations: a fresh image.Alpha or image.RGBA of MaxDim x MaxDim pixels.
DstRect == <<0, 0, MaxDim, MaxDim>>
Dst(k) ==
    [kind |-> k, rect |-> DstRect,
     pix |-> [q \in 1..(BytesPerPixel(k) * MaxDim * MaxDim) |-> 128]]

\* Destination rectangles: all of dst, its first pixel, its far corner, and
\* one that sticks out of dst on the right.
FirstPixel == <<0, 0, 1, 1>>
FarCorner == <<1, 1, MaxDim, MaxDim>>
StickingOut == <<1, 0, MaxDim + 1, 1>>

\* Sources: an opaque uniform, a translucent uniform, an opaque image that is
\* not an *image.Uniform.
OpaqueUniform == [uniform |-> TRUE, c |-> <<U16Max, U16Max, U16Max, U16Max>>]
TranslucentUniform == [uniform |-> TRUE, c |-> <<16384, 0, 0, 32768>>]
OpaqueImage == [uniform |-> FALSE, c |-> <<U16Max, U16Max, U16Max, U16Max>>]

\* The Draw calls made: <<dst kind, r, src>>.
DrawCalls ==
    { <<"Alpha", DstRect, OpaqueUniform>>,
      <<"Alpha", FarCorner, OpaqueUniform>>,
      <<"Alpha", StickingOut, OpaqueUniform>>,
      <<"Alpha", DstRect, TranslucentUniform>>,
      <<"Alpha", FirstPixel, OpaqueImage>>,
      <<"RGBA", DstRect, OpaqueUniform>>,
      <<"RGBA", FirstPixel, TranslucentUniform>>,
      <<"RGBA", StickingOut, TranslucentUniform>>,
      <<"RGBA", FarCorner, OpaqueImage>> }

Next ==
    \/ \E sz \in Sizes : Reset(sz[1], sz[2])
    \/ \E o \in Ops : SetDrawOp(o)
    \/ \E a \in Pts : MoveTo(a)
    \/ \E b \in Pts : LineTo(b)
    \/ \E q \in Quads : QuadTo(q[1], q[2])
    \/ \E q \in Cubes : CubeTo(q[1], q[2], q[3])
    \/ ClosePath
    \/ \E c \in DrawCalls : Draw(Dst(c[1]), c[2], c[3])

Spec == Init /\ [][Next]_vars


\* ------------------------------------------------- the curves on their own
\* Control points for QuadTo and CubeTo: coincident, half a pixel apart and
\* far apart.
FlatCoords == {0, FxOne \div 2, 4 * MaxCoord * FxOne}
FlatPts == FlatCoords \X FlatCoords

\* NewRasterizer(MaxDim, MaxDim) followed by MoveTo(a).
InitFlat ==
    \E a \in FlatPts :
        LET z == ResetFields(NilBuf, NilBuf, MaxDim, MaxDim)
        IN /\ bufF32 = z.bufF32 /\ capF32 = z.capF32 /\ lenF32 = z.lenF32
           /\ bufU32 = z.bufU32 /\ capU32 = z.capU32 /\ lenU32 = z.lenU32
           /\ useFloatingPointMath = z.useFloatingPointMath
           /\ status = z.status
           /\ size = <<MaxDim, MaxDim>> /\ first = a /\ pen = a /\ DrawOp = "Over"
           /\ dst = NoDst /\ op = "MoveTo" /\ args = <<Origin, a>>
           /\ lastMoveTo = a /\ lineTos = <<>> /\ trace = NoTrace
           /\ steps = 0 /\ blend = NoBlend

NextFlat ==
    /\ steps = 0
    /\ \/ \E b, c \in FlatPts : QuadTo(b, c)
       \/ \E b, c, d \in FlatPts : CubeTo(b, c, d)

SpecFlat == InitFlat /\ [][NextFlat]_vars

\* ------------------------------------- the compositing formulas on their own
\* One channel of one pixel: d the destination channel (16 bits), ma the mask
\* value, s the source channel and sa the source alpha.
Samples16 == {0, 1, 255, 256, 32767, 32768, 65534, U16Max}
Expanded8 == {257 * k : k \in 0..255}
SourceSamples == {0, 1, 32768, 65534, U16Max}

InitBlend ==
    /\ \E d \in Samples16 \cup Expanded8, ma \in Samples16,
          s \in SourceSamples, sa \in SourceSamples :
          blend = [NoBlend EXCEPT !.d = d, !.ma = ma, !.s = s, !.sa = sa]
    /\ LET z == ResetFields(NilBuf, NilBuf, 0, 0)
       IN /\ bufF32 = z.bufF32 /\ capF32 = z.capF32 /\ lenF32 = z.lenF32
          /\ bufU32 = z.bufU32 /\ capU32 = z.capU32 /\ lenU32 = z.lenU32
          /\ useFloatingPointMath = z.useFloatingPointMath
          /\ status = z.status
    /\ size = <<0, 0>> /\ first = Origin /\ pen = Origin /\ DrawOp = "Over"
    /\ dst = NoDst /\ op = "NewRasterizer" /\ args = << <<0, 0>> >>
    /\ lastMoveTo = Origin /\ lineTos = <<>> /\ trace = NoTrace /\ steps = 0

Blended(path, fast, generic, sum, chan) ==
    /\ blend.path = "none"
    /\ blend' = [blend EXCEPT !.path = path, !.fast = fast, !.generic = generic,
                              !.sumHi = sum[1], !.chan = chan]
    /\ UNCHANGED <<bufF32, capF32, lenF32, bufU32, capU32, lenU32,
                   useFloatingPointMath, size, first, pen, DrawOp, status, dst,
                   op, args, lastMoveTo, lineTos, trace, steps>>

\* rasterizeOpOver on a destination with 16-bit channels.
BlendOver16 ==
    LET a == OverAlpha(blend.sa, blend.ma)
        sum == OverSum(blend.d, a, blend.s, blend.ma)
    IN Blended("OpOver16", 0, U16(OverChannel(blend.d, a, blend.s, blend.ma)),
               sum, Div65535(sum))

\* rasterizeDstRGBASrcUniformOpOver against rasterizeOpOver on an image.RGBA.
BlendRGBAOver ==
    /\ blend.d \in Expanded8
    /\ LET d8 == blend.d \div 257
           a == OverAlpha(blend.sa, blend.ma)
           sum == OverSum(blend.d, a, blend.s, blend.ma)
       IN Blended("RGBAOver", FastRGBAOver(d8, blend.s, blend.sa, blend.ma),
                  GenericOver(d8, blend.s, blend.sa, blend.ma), sum, Div65535(sum))

\* rasterizeDstRGBASrcUniformOpSrc against rasterizeOpSrc on an image.RGBA.
BlendRGBASrc ==
    /\ blend.d \in Expanded8
    /\ Blended("RGBASrc", FastRGBASrc(blend.s, blend.ma),
               GenericSrc(blend.s, blend.ma), <<0, 0>>, 0)

\* rasterizeDstAlphaSrcOpaqueOpOver (no bypass) against rasterizeOpOver on an
\* image.Alpha, for an opaque source.
BlendAlphaOver ==
    /\ blend.d \in Expanded8 /\ blend.sa = U16Max /\ blend.s = U16Max
    /\ LET d8 == blend.d \div 257
           sum == Mul16(blend.d, U16Max - blend.ma)
       IN Blended("AlphaOver", FastAlphaOver(d8, blend.ma),
                  GenericOver(d8, U16Max, U16Max, blend.ma), sum,
                  Div65535(sum) + blend.ma)

\* rasterizeDstAlphaSrcOpaqueOpSrc (no bypass) against rasterizeOpSrc.
BlendAlphaSrc ==
    /\ blend.d \in Expanded8 /\ blend.sa = U16Max /\ blend.s = U16Max
    /\ Blended("AlphaSrc", FastAlphaSrc(blend.ma), GenericSrc(U16Max, blend.ma),
               <<0, 0>>, 0)

NextBlend ==
    \/ BlendOver16
    \/ BlendRGBAOver
    \/ BlendRGBASrc
    \/ BlendAlphaOver
    \/ BlendAlphaSrc

SpecBlend == InitBlend /\ [][NextBlend]_vars


\* -------------------------------------------------------------- properties
ActiveBuf == IF useFloatingPointMath THEN bufF32 ELSE bufU32
ActiveLen == IF useFloatingPointMath THEN lenF32 ELSE lenU32

\* C1: once NewRasterizer(w, h) or Reset(w, h) has returned, whatever calls
\* came before it, first and pen are the origin, DrawOp is Over, and the
\* active buffer is w*h long with every cell zero.
C1_ResetState ==
    (op \in {"NewRasterizer", "Reset"} /\ status = "ok") =>
        /\ first = Origin /\ pen = Origin
        /\ DrawOp = "Over"
        /\ ActiveLen = size[1] * size[2]
        /\ \A i \in 1..ActiveLen : Cell(ActiveBuf, i) = 0

\* A Reset to a smaller size that reused the capacity of a buffer an edge had
\* been deposited into: cells beyond the new length still hold the old areas.
C1_Witness ==
    /\ op = "Reset" /\ status = "ok" /\ ~useFloatingPointMath
    /\ size = <<1, MaxDim>> /\ capU32 > lenU32
    /\ \E i \in DOMAIN bufU32 : i > lenU32

\* C2: in every state useFloatingPointMath is true exactly when the width or
\* the height of the last Reset/NewRasterizer exceeds 2048, and no call other
\* than Reset changes the mode or the size.
C2_ModeFollowsSize ==
    /\ [](useFloatingPointMath <=>
            (size[1] > floatingPointMathThreshold
             \/ size[2] > floatingPointMathThreshold))
    /\ [][op' # "Reset" =>
            (useFloatingPointMath' = useFloatingPointMath /\ size' = size)]_vars

\* An edge deposited by the floating point kernel and then drawn.
C2_Witness ==
    /\ op = "Draw" /\ status = "ok" /\ useFloatingPointMath
    /\ size[1] <= floatingPointMathThreshold
    /\ DOMAIN bufF32 # {} /\ trace.maskPass

\* C3: every NewRasterizer(w, h) or Reset(w, h) with w < 0 or h < 0 ends in a
\* rejection (here: a panic) and never leaves a usable rasterizer.
C3_NegativeSizeRejected ==
    (op \in {"NewRasterizer", "Reset"} /\ (args[1][1] < 0 \/ args[1][2] < 0)) =>
        status = "panic"

\* C4: first is always the argument of the last MoveTo since the last Reset
\* (the origin if there was none); ClosePath leaves the state LineTo(first)
\* would leave; LineTo, QuadTo, CubeTo, ClosePath and Draw never change first.
C4_ClosePathIsLineToFirst ==
    /\ [](first = lastMoveTo)
    /\ [][/\ op' = "ClosePath" =>
               /\ pen' = first /\ first' = first /\ lineTos' = <<first>>
               /\ bufU32' = IF useFloatingPointMath THEN bufU32
                            ELSE fixedLineTo(bufU32, lenU32, pen, first,
                                             size[1], size[2])
               /\ bufF32' = IF useFloatingPointMath
                            THEN floatingLineTo(bufF32, lenF32, pen, first,
                                                size[1], size[2])
                            ELSE bufF32
          /\ op' \in {"LineTo", "QuadTo", "CubeTo", "ClosePath", "Draw"} =>
               first' = first]_vars

\* moveTo(a); lineTo(b); closePath() with a off the origin and b # a, the
\* closing edge crossing the viewport.
C4_Witness ==
    /\ op = "ClosePath" /\ status = "ok"
    /\ lastMoveTo # Origin /\ args[1] # first /\ pen = first
    /\ DOMAIN bufU32 # {}

\* C5: after an accumulateMask pass, in either mode, bufU32 is w*h long and
\* every value of it lies in [0, 0xffff].
C5_CoverageBound ==
    (op = "Draw" /\ trace.maskPass) =>
        /\ lenU32 = size[1] * size[2]
        /\ \A i \in 1..lenU32 : Cell(bufU32, i) \in 0..U16Max

\* A mask pass that left a fully covered and a partly covered pixel.
C5_Witness ==
    /\ op = "Draw" /\ trace.maskPass
    /\ \E i, j \in DOMAIN bufU32 :
          /\ i <= lenU32 /\ j <= lenU32
          /\ bufU32[i] = U16Max /\ bufU32[j] < U16Max

\* C6 as stated: for a uniform source with sa = 0xffff and an 8-bit alpha
\* destination Draw uses the fused fast path and runs no separate mask pass,
\* for every destination rectangle r.
C6_NoMaskPassForOpaqueAlpha ==
    (op = "Draw" /\ trace.uniform /\ trace.sa = U16Max /\ dst.kind = "Alpha") =>
        /\ trace.path \in {"DstAlphaSrcOpaqueOpOver", "DstAlphaSrcOpaqueOpSrc"}
        /\ ~trace.maskPass

\* C6 amended: for such a source and destination Draw uses the
\* rasterizeDstAlphaSrcOpaque function DrawOp selects, and that function
\* skips the mask pass exactly when r is both dst.Bounds() and z.Bounds().
C6_FusedOnlyOnFullBounds ==
    (op = "Draw" /\ trace.uniform /\ trace.sa = U16Max /\ dst.kind = "Alpha") =>
        /\ trace.path = IF DrawOp = "Over" THEN "DstAlphaSrcOpaqueOpOver"
                                           ELSE "DstAlphaSrcOpaqueOpSrc"
        /\ trace.maskPass <=> ~(trace.r = dst.rect /\ trace.r = Bounds(size))

\* The fused Src path taken on the full bounds.
C6_Witness ==
    /\ op = "Draw" /\ status = "ok" /\ DrawOp = "Src"
    /\ trace.uniform /\ trace.sa = U16Max /\ dst.kind = "Alpha"
    /\ trace.bypass /\ ~trace.maskPass

\* C7: QuadTo and CubeTo emit exactly one LineTo when devsq < 1/3 and
\* exactly 1 + floor(sqrt(sqrt(3*devsq))) otherwise, the last of them to the
\* curve's endpoint, where the pen ends.
C7_SegmentCount ==
    op \in {"QuadTo", "CubeTo"} =>
        LET a == args[1]
            e == args[Len(args)]
            devsq == IF op = "QuadTo"
                     THEN devSquared(a, args[2], args[3])
                     ELSE Max2(devSquared(a, args[2], args[4]),
                               devSquared(a, args[3], args[4]))
            n == IF 3 * devsq < FxOne * FxOne THEN 1
                 ELSE 1 + ISqrt(ISqrt((3 * devsq) \div (FxOne * FxOne)))
        IN /\ Len(lineTos) = n
           /\ lineTos[n] = e
           /\ pen = e

\* A cubic flattened into three or more segments.
C7_Witness ==
    /\ op = "CubeTo" /\ Len(lineTos) >= 3
    /\ lineTos[1] # lineTos[2] /\ pen = args[4]

\* C8: on an 8-bit destination the type-specialised rasterizers write the
\* byte the generic per-pixel path writes.
C8_FastEqualsGeneric ==
    blend.path \in {"RGBAOver", "RGBASrc", "AlphaOver", "AlphaSrc"} =>
        blend.fast = blend.generic

\* A proper blend: partial mask, translucent source, mid-grey destination.
C8_Witness ==
    /\ blend.path = "RGBAOver"
    /\ blend.ma = 32768 /\ blend.sa = 32768 /\ blend.s = 32768
    /\ blend.d = 257 * 100
    /\ blend.fast \notin {0, 100, 255}

\* C9: for a premultiplied source (s <= sa) the Over arithmetic stays below
\* 2^32 and yields a channel of at most 0xffff.
C9_OverFitsUint32 ==
    (blend.path \in {"OpOver16", "RGBAOver", "AlphaOver"} /\ blend.s <= blend.sa) =>
        /\ blend.sumHi < B16
        /\ blend.chan <= U16Max

\* The largest case: a saturated destination under a nearly full mask.
C9_Witness ==
    /\ blend.path = "OpOver16" /\ blend.s <= blend.sa
    /\ blend.d = U16Max /\ blend.ma = 65534
    /\ blend.sumHi = 65534 /\ blend.chan = U16Max

\* C10: in a mask-based Draw with r.Dx() <= w and r.Dy() <= h, every mask
\* read is at index y*w + x < w*h = len(bufU32), which is pixel (x, y) of the
\* rasterizer, and only destination pixels inside r are written.
C10_MaskReadsAndDstWritesInBounds ==
    (/\ op = "Draw" /\ trace.maskPass
     /\ Dx(trace.r) <= size[1] /\ Dy(trace.r) <= size[2]) =>
        /\ lenU32 = size[1] * size[2]
        /\ \A rd \in trace.reads :
              /\ rd[3] = rd[2] * size[1] + rd[1]
              /\ rd[3] < lenU32
              /\ rd[1] < size[1] /\ rd[2] < size[2]
        /\ \A px \in trace.writes : InRect(px[1], px[2], trace.r)

====
